---- MODULE Spec2Model ----
(***************************************************************************)
(* A model of speedata/goxml: the identity generator, the tree builder     *)
(* Parse, the programmatic construction interface (Append) and the         *)
(* serializer ToXML.                                                       *)
(*                                                                         *)
(* Sources.  src/xmldecoder.go is the decoder without node identities;     *)
(* src/Readme.md, lines 164-666, holds the text of the same file with the  *)
(* identity generator, the ID fields and the extended Element.Append.  The *)
(* model follows the latter and agrees with the former wherever the two    *)
(* have the same code (Parse's token handling, XMLDocument.Append, toxml). *)
(* The token source, encoding/xml's Decoder, is not part of the            *)
(* repository: Parse is run on arbitrary token streams.                    *)
(*                                                                         *)
(* Representation.  A Go string that is escaped, concatenated or compared  *)
(* with such a string (character data, attribute values, namespace URIs)   *)
(* is a sequence of one-character strings; names and prefixes, which are   *)
(* only compared and joined, are TLA+ strings.  *Element and *XMLDocument  *)
(* are addresses into the heaps elems and docs; CharData, Comment and      *)
(* ProcInst are Go values and are stored in the children slices as records.*)
(***************************************************************************)
EXTENDS Integers, Sequences, FiniteSets, TLC

VARIABLES
    genI,       \* genIntegerSequence: the local i
    genPc,      \* genIntegerSequence: "send" (blocked in ids <- i) or "inc"
    got,        \* per concurrent builder: the identities it received, in order
    docs,       \* heap of XMLDocument
    elems,      \* heap of Element
    stag,       \* per Element built by Parse: the xml.StartElement it was built from
    pstate,     \* Parse: "idle", "run", "ok", "err", "panic"
    eltstack,   \* Parse: eltstack
    cur,        \* Parse: cur
    ncreated,   \* Parse: nodes created for tokens so far
    srcErr,     \* the error dec.Token() reported, Nil when none
    ret,        \* what Parse returned: [doc, err]
    nops,       \* programmatic interface: calls made so far
    apanic,     \* programmatic interface: a call panicked
    xstate,     \* ToXML: "idle", "run", "done"
    xtop,       \* ToXML: the node the top-level call was made on
    xwork,      \* ToXML: what the recursion has still to write, next first
    printed,    \* ToXML: namespacePrinted
    out,        \* ToXML: the pieces written to the strings.Builder, in order
    ncalls,     \* ToXML: top-level calls started so far
    prev,       \* ToXML: the node and the text of the top-level call before this one
    arg,        \* the argument of a call of a function or query, Nil before the call
    res,        \* what that call returned, Nil before it returns
    build       \* per concurrent builder: where its Parse stands, and len(eltstack)

vars == <<genI, genPc, got, docs, elems, stag, pstate, eltstack, cur, ncreated,
          srcErr, ret, nops, apanic, xstate, xtop, xwork, printed, out, ncalls,
          prev, arg, res, build>>

genVars == <<genI, genPc>>
heapVars == <<docs, elems, stag>>
parseVars == <<pstate, eltstack, cur, ncreated, srcErr, ret>>
xmlVars == <<xstate, xtop, xwork, printed, out, ncalls>>
callVars == <<arg, res>>

----------------------------------------------------------------------------
(* Bounds *)

MaxNodes == 3       \* nodes one Parse creates (start tags, character data, ...)
MaxXMLNodes == 2    \* the same, for a Parse whose result is serialized
MaxCalls == 2       \* top-level ToXML calls
NumBuilders == 2    \* concurrent receivers of the ids channel
MaxGenerated == 6   \* identities the generator hands out
MaxOps == 4         \* constructor and Append calls of the programmatic interface
MaxBuildIDs == 3    \* identities one of several concurrent builds asks for
MaxAttrNodes == 1   \* elements of a tree whose attributes are then set
MaxAttrOps == 3     \* SetAttribute and Append(Attribute) calls on such a tree

----------------------------------------------------------------------------
(* Values *)

Nil == [kind |-> "nil"]

DocRef(i) == [kind |-> "Document", ref |-> i]
EltRef(i) == [kind |-> "Element", ref |-> i]

EmptyText == << >>
XmlnsSpace == <<"x", "m", "l", "n", "s">>
U1 == <<"u", "1">>
U2 == <<"u", "2">>
NoNamespaces == [p \in {} |-> EmptyText]

SeqRange(s) == {s[i] : i \in 1..Len(s)}

\* All orders in which a Go map with key set S can be ranged over.
Orders(S) == {o \in [1..Cardinality(S) -> S] : SeqRange(o) = S}

\* m[k] = v of a Go map
MapSet(m, k, v) == [p \in (DOMAIN m) \cup {k} |-> IF p = k THEN v ELSE m[p]]

----------------------------------------------------------------------------
(* Nodes *)

CharDataVal(id, c) == [kind |-> "CharData", ID |-> id, Contents |-> c, ptr |-> FALSE]
CharDataPtr(id, c) == [kind |-> "CharData", ID |-> id, Contents |-> c, ptr |-> TRUE]
CommentVal(id, c) == [kind |-> "Comment", ID |-> id, Contents |-> c]
ProcInstVal(id, t, i) == [kind |-> "ProcInst", ID |-> id, Target |-> t, Inst |-> i]
AttributeVal(name, space, value) ==
    [kind |-> "Attribute", ID |-> 0, Name |-> name, Namespace |-> space, Value |-> value]

XmlName(space, local) == [Space |-> space, Local |-> local]
XmlAttr(space, local, value) == [Name |-> XmlName(space, local), Value |-> value]

\* XMLDocument{ID: id}
NewDocument(id) == [ID |-> id, children |-> << >>]

\* NewElement(): every field but Namespaces has Go's zero value.
NewElement ==
    [ID |-> 0, Name |-> "", Prefix |-> "", Parent |-> Nil,
     Namespaces |-> NoNamespaces, children |-> << >>, attributes |-> << >>]

IsCharDataVal(n) == n.kind = "CharData" /\ ~n.ptr
IsCharDataPtr(n) == n.kind = "CharData" /\ n.ptr

----------------------------------------------------------------------------
(* Append.  H is the heap [docs, elems, panicked]; the operators return    *)
(* the heap after the call.                                                *)

\* setParent: only *Element stores the parent; Attribute.setParent panics;
\* the other variants do nothing.
setParent(H, n, p) ==
    CASE n.kind = "Element" -> [H EXCEPT !.elems[n.ref].Parent = p]
      [] n.kind = "Attribute" -> [H EXCEPT !.panicked = TRUE]
      [] OTHER -> H

\* index of the first attribute of attrs with the name and space of t, 0 if none
RECURSIVE FindAttr(_, _, _)
FindAttr(attrs, t, i) ==
    IF i > Len(attrs) THEN 0
    ELSE IF attrs[i].Name.Local = t.Name /\ attrs[i].Name.Space = t.Namespace THEN i
    ELSE FindAttr(attrs, t, i + 1)

\* func (elt *Element) Append(n XMLNode)
ElementAppend(H, e, n) ==
    LET elt == H.elems[e]
        l == Len(elt.children)
        plain == [H EXCEPT !.elems[e].children = Append(elt.children, n)]
        merged == [H EXCEPT !.elems[e].children[l] =
                      CharDataVal(0, elt.children[l].Contents \o n.Contents)]
    IN  CASE n.kind = "Attribute" ->
               LET i == FindAttr(elt.attributes, n, 1)
               IN  IF i > 0
                   THEN [H EXCEPT !.elems[e].attributes[i].Value = n.Value]
                   ELSE [H EXCEPT !.elems[e].attributes =
                            Append(elt.attributes, XmlAttr(n.Namespace, n.Name, n.Value))]
          [] IsCharDataVal(n) ->
               IF l > 0 /\ IsCharDataVal(elt.children[l]) THEN merged ELSE plain
          [] IsCharDataPtr(n) ->
               IF l > 0 /\ IsCharDataPtr(elt.children[l]) THEN merged ELSE plain
          [] OTHER -> plain

\* func (xr *XMLDocument) Append(n XMLNode)
XMLDocumentAppend(H, d, n) ==
    setParent([H EXCEPT !.docs[d].children = Append(H.docs[d].children, n)],
              n, DocRef(d))

\* c.Append(n) through the Appender interface
AppenderAppend(H, c, n) ==
    IF c.kind = "Document" THEN XMLDocumentAppend(H, c.ref, n)
    ELSE ElementAppend(H, c.ref, n)

Heap == [docs |-> docs, elems |-> elems, panicked |-> FALSE]

----------------------------------------------------------------------------
(* The identity generator: func genIntegerSequence(ids chan int), started  *)
(* once by init() on the unbuffered channel ids.                           *)

\* Faulty variant of GenInc: the generator sends again without i++.
GenIncLost ==
    /\ genPc = "inc"
    /\ genI' = genI
    /\ genPc' = "send"

\* i++ after a completed send
GenInc ==
    /\ genPc = "inc"
    /\ genI' = genI + 1
    /\ genPc' = "send"

\* <-ids in a receiver: the rendezvous with the generator's ids <- i.
\* The value received is genI.
RecvID ==
    /\ genPc = "send"
    /\ genPc' = "inc"
    /\ UNCHANGED genI

----------------------------------------------------------------------------
(* Parse *)

Errors == {[kind |-> "error", msg |-> "syntax"], [kind |-> "error", msg |-> "read"]}

\* The loop over v.Attr of a start tag: namespace declarations go to the
\* binding table, everything else to the attribute list.
RECURSIVE ApplyAttrs(_, _, _)
ApplyAttrs(attrs, ns, kept) ==
    IF attrs = << >> THEN [Namespaces |-> ns, attributes |-> kept]
    ELSE LET att == Head(attrs)
         IN  IF att.Name.Local = "xmlns"
             THEN ApplyAttrs(Tail(attrs), MapSet(ns, "", att.Value), kept)
             ELSE IF att.Name.Space = XmlnsSpace
             THEN ApplyAttrs(Tail(attrs), MapSet(ns, att.Name.Local, att.Value), kept)
             ELSE ApplyAttrs(Tail(attrs), ns, Append(kept, att))

\* The prefixes the loop "for prefix, ns := range tmp.Namespaces" can leave in
\* tmp.Prefix: the last matching one in the map's iteration order, which Go
\* leaves unspecified; "" when none matches.
PrefixChoices(ns, space) ==
    LET m == {p \in DOMAIN ns : ns[p] = space}
    IN  IF m = {} THEN {""} ELSE m

\* the Namespaces the new element starts from
Inherited(c) == IF c.kind = "Element" THEN elems[c.ref].Namespaces ELSE NoNamespaces

\* doc := &XMLDocument{ID: <-ids}; eltstack := []XMLNode{doc}; cur = doc
ParseBegin ==
    /\ pstate = "idle"
    /\ RecvID
    /\ docs' = Append(docs, NewDocument(genI))
    /\ eltstack' = <<DocRef(Len(docs) + 1)>>
    /\ cur' = DocRef(Len(docs) + 1)
    /\ pstate' = "run"
    /\ UNCHANGED <<got, elems, stag, ncreated, srcErr, ret, nops, apanic, xmlVars, prev, callVars, build>>

\* Faulty variant of TokStartElement: tmp.Namespaces is the parent's map
\* itself, not a copy, so the declarations of the tag are written to it too.
TokStartElementShared(v) ==
    /\ pstate = "run"
    /\ RecvID
    /\ LET a == ApplyAttrs(v.Attr, Inherited(cur), << >>)
           new == Len(elems) + 1
       IN  \E prefix \in PrefixChoices(a.Namespaces, v.Name.Space) :
             LET tmp == [NewElement EXCEPT !.ID = genI,
                                           !.Namespaces = a.Namespaces,
                                           !.Name = v.Name.Local,
                                           !.Parent = cur,
                                           !.attributes = a.attributes,
                                           !.Prefix = prefix]
                 shared == IF cur.kind = "Element"
                           THEN [elems EXCEPT ![cur.ref].Namespaces = a.Namespaces]
                           ELSE elems
                 H == AppenderAppend([Heap EXCEPT !.elems = Append(shared, tmp)],
                                     cur, EltRef(new))
             IN  /\ docs' = H.docs
                 /\ elems' = H.elems
                 /\ stag' = Append(stag, v)
                 /\ cur' = EltRef(new)
                 /\ eltstack' = Append(eltstack, EltRef(new))
    /\ ncreated' = ncreated + 1
    /\ UNCHANGED <<got, pstate, srcErr, ret, nops, apanic, xmlVars, prev, callVars, build>>

\* case xml.StartElement
TokStartElement(v) ==
    /\ pstate = "run"
    /\ RecvID
    /\ LET a == ApplyAttrs(v.Attr, Inherited(cur), << >>)
           new == Len(elems) + 1
       IN  \E prefix \in PrefixChoices(a.Namespaces, v.Name.Space) :
             LET tmp == [NewElement EXCEPT !.ID = genI,
                                           !.Namespaces = a.Namespaces,
                                           !.Name = v.Name.Local,
                                           !.Parent = cur,
                                           !.attributes = a.attributes,
                                           !.Prefix = prefix]
                 H == AppenderAppend([Heap EXCEPT !.elems = Append(elems, tmp)],
                                     cur, EltRef(new))
             IN  /\ docs' = H.docs
                 /\ elems' = H.elems
                 /\ stag' = Append(stag, v)
                 /\ cur' = EltRef(new)
                 /\ eltstack' = Append(eltstack, EltRef(new))
    /\ ncreated' = ncreated + 1
    /\ UNCHANGED <<got, pstate, srcErr, ret, nops, apanic, xmlVars, prev, callVars, build>>

\* a leaf node n, already given its identity, is appended to cur
ParseLeaf(n) ==
    /\ pstate = "run"
    /\ RecvID
    /\ LET H == AppenderAppend(Heap, cur, n)
       IN  /\ docs' = H.docs
           /\ elems' = H.elems
    /\ ncreated' = ncreated + 1
    /\ UNCHANGED <<got, stag, pstate, eltstack, cur, srcErr, ret, nops, apanic, xmlVars, prev, callVars, build>>

\* case xml.CharData
TokCharData(s) == ParseLeaf(CharDataVal(genI, s))

\* case xml.ProcInst
TokProcInst(target, inst) == ParseLeaf(ProcInstVal(genI, target, inst))

\* case xml.Comment
TokComment(s) == ParseLeaf(CommentVal(genI, s))

\* Faulty variant of TokEndElement: cur is set, eltstack is not shortened.
TokEndElementKeepsStack ==
    /\ pstate = "run"
    /\ IF Len(eltstack) - 2 < 0
       THEN /\ pstate' = "panic"
            /\ UNCHANGED <<cur, eltstack>>
       ELSE /\ cur' = eltstack[Len(eltstack) - 1]
            /\ UNCHANGED <<eltstack, pstate>>
    /\ UNCHANGED <<genVars, got, heapVars, ncreated, srcErr, ret, nops, apanic, xmlVars, prev, callVars, build>>

\* case xml.EndElement:
\*   cur, eltstack = eltstack[len(eltstack)-2], eltstack[:len(eltstack)-1]
\* With one entry on the stack the index is -1 and the Go runtime panics.
TokEndElement ==
    /\ pstate = "run"
    /\ IF Len(eltstack) - 2 < 0
       THEN /\ pstate' = "panic"
            /\ UNCHANGED <<cur, eltstack>>
       ELSE /\ cur' = eltstack[Len(eltstack) - 1]
            /\ eltstack' = SubSeq(eltstack, 1, Len(eltstack) - 1)
            /\ UNCHANGED pstate
    /\ UNCHANGED <<genVars, got, heapVars, ncreated, srcErr, ret, nops, apanic, xmlVars, prev, callVars, build>>

\* err == io.EOF: break, then return doc, nil
TokEOF ==
    /\ pstate = "run"
    /\ pstate' = "ok"
    /\ ret' = [doc |-> eltstack[1], err |-> Nil]
    /\ UNCHANGED <<genVars, got, heapVars, eltstack, cur, ncreated, srcErr, nops, apanic, xmlVars, prev, callVars, build>>

\* Faulty variant of TokError: return doc, err.
TokErrorReturnsDoc(e) ==
    /\ pstate = "run"
    /\ srcErr' = e
    /\ pstate' = "err"
    /\ ret' = [doc |-> eltstack[1], err |-> e]
    /\ UNCHANGED <<genVars, got, heapVars, eltstack, cur, ncreated, nops, apanic, xmlVars, prev, callVars, build>>

\* err != nil: return nil, err
TokError(e) ==
    /\ pstate = "run"
    /\ srcErr' = e
    /\ pstate' = "err"
    /\ ret' = [doc |-> Nil, err |-> e]
    /\ UNCHANGED <<genVars, got, heapVars, eltstack, cur, ncreated, nops, apanic, xmlVars, prev, callVars, build>>

----------------------------------------------------------------------------
(* ToXML.  out holds one record per write to the strings.Builder.  The     *)
(* recursion of toxml is run with an explicit list xwork of what is still  *)
(* to be written: a node, or the end tag of an element whose children are  *)
(* being written.                                                          *)

\* Faulty variant of escape: ">" is replaced too.
RECURSIVE escapeAlsoGt(_)
escapeAlsoGt(in) ==
    IF in = << >> THEN << >>
    ELSE LET c == Head(in)
             r == CASE c = "&" -> <<"&", "a", "m", "p", ";">>
                    [] c = "<" -> <<"&", "l", "t", ";">>
                    [] c = ">" -> <<"&", "g", "t", ";">>
                    [] c = "\"" -> <<"&", "q", "u", "o", "t", ";">>
                    [] OTHER -> <<c>>
         IN  r \o escapeAlsoGt(Tail(in))

\* strings.NewReplacer("&", "&amp;", "<", "&lt;", "\"", "&quot;").Replace(in)
RECURSIVE escape(_)
escape(in) ==
    IF in = << >> THEN << >>
    ELSE LET c == Head(in)
             r == CASE c = "&" -> <<"&", "a", "m", "p", ";">>
                    [] c = "<" -> <<"&", "l", "t", ";">>
                    [] c = "\"" -> <<"&", "q", "u", "o", "t", ";">>
                    [] OTHER -> <<c>>
         IN  r \o escape(Tail(in))

PieceOpen(name) == [k |-> "open", name |-> name]                  \* <name
PieceAttr(name, value) == [k |-> "attr", name |-> name, value |-> value]  \*  name="value"
PieceSelfClose == [k |-> "selfclose"]                             \*  />
PieceGt == [k |-> "gt"]                                           \* >
PieceEndTag(name) == [k |-> "etag", name |-> name]                \* </name>
PieceText(value) == [k |-> "text", value |-> value]
PieceComment(value) == [k |-> "comment", value |-> value]         \* <!--value-->
PieceProcInst(t, i) == [k |-> "pi", target |-> t, inst |-> i]     \* <?target inst?>

EndTagItem(name) == [kind |-> "etag", name |-> name]

\* the name an element is written under
EltName(elt) == IF elt.Prefix # "" THEN elt.Prefix \o ":" \o elt.Name ELSE elt.Name

\* the attribute name a binding of prefix is declared with
XmlnsName(prefix) == IF prefix = "" THEN "xmlns" ELSE "xmlns:" \o prefix

\* Faulty variant of WriteNamespaces: the loop without the namespacePrinted test.
RECURSIVE WriteNamespacesUnchecked(_, _, _, _)
WriteNamespacesUnchecked(ord, ns, pr, acc) ==
    IF ord = << >> THEN [printed |-> pr, pieces |-> acc]
    ELSE WriteNamespacesUnchecked(Tail(ord), ns, pr \cup {ns[Head(ord)]},
                                  Append(acc, PieceAttr(XmlnsName(Head(ord)), ns[Head(ord)])))

\* for prefix, ns := range elt.Namespaces, in the iteration order ord:
\* a namespace not yet in namespacePrinted is marked and declared.
RECURSIVE WriteNamespaces(_, _, _, _)
WriteNamespaces(ord, ns, pr, acc) ==
    IF ord = << >> THEN [printed |-> pr, pieces |-> acc]
    ELSE LET prefix == Head(ord)
         IN  IF ns[prefix] \notin pr
             THEN WriteNamespaces(Tail(ord), ns, pr \cup {ns[prefix]},
                                  Append(acc, PieceAttr(XmlnsName(prefix), ns[prefix])))
             ELSE WriteNamespaces(Tail(ord), ns, pr, acc)

\* for _, att := range elt.attributes
WriteAttributes(attrs) ==
    [i \in 1..Len(attrs) |-> PieceAttr(attrs[i].Name.Local, escape(attrs[i].Value))]

\* what is left to write once w is; the top-level call returns when nothing is
XContinue(w) ==
    /\ xwork' = w
    /\ xstate' = IF w = << >> THEN "done" ELSE "run"

\* Faulty variant of NewPrinted: the set of the previous call is used again.
StalePrinted == printed

\* make(map[string]bool) of a top-level call
NewPrinted == {}

\* func (xr *XMLDocument) ToXML() / func (elt *Element) ToXML().  What the
\* caller keeps of the call before (prev) is the caller's to say.
ToXML(n) ==
    /\ pstate = "ok"
    /\ xstate \in {"idle", "done"}
    /\ xtop' = n
    /\ printed' = NewPrinted
    /\ out' = << >>
    /\ xwork' = <<n>>
    /\ xstate' = "run"
    /\ ncalls' = ncalls + 1
    /\ UNCHANGED <<genVars, got, heapVars, parseVars, nops, apanic, callVars, build>>

\* func (xr *XMLDocument) toxml(namespacePrinted)
DocumentToxml ==
    /\ xstate = "run"
    /\ Head(xwork).kind = "Document"
    /\ XContinue(docs[Head(xwork).ref].children \o Tail(xwork))
    /\ UNCHANGED <<genVars, got, heapVars, parseVars, nops, apanic, xtop, printed, out, ncalls, prev, callVars, build>>

\* func (elt *Element) toxml(namespacePrinted), up to the recursion into the
\* children
ElementToxml ==
    /\ xstate = "run"
    /\ Head(xwork).kind = "Element"
    /\ LET elt == elems[Head(xwork).ref]
       IN  \E ord \in Orders(DOMAIN elt.Namespaces) :
             LET w == WriteNamespaces(ord, elt.Namespaces, printed, << >>)
                 start == <<PieceOpen(EltName(elt))>> \o w.pieces
                              \o WriteAttributes(elt.attributes)
             IN  /\ printed' = w.printed
                 /\ IF Len(elt.children) = 0
                    THEN /\ out' = out \o start \o <<PieceSelfClose>>
                         /\ XContinue(Tail(xwork))
                    ELSE /\ out' = out \o start \o <<PieceGt>>
                         /\ XContinue(elt.children \o <<EndTagItem(EltName(elt))>>
                                          \o Tail(xwork))
    /\ UNCHANGED <<genVars, got, heapVars, parseVars, nops, apanic, xtop, ncalls, prev, callVars, build>>

\* func (elt *Element) toxml: fmt.Fprintf(&sb, "</%s>", eltname) after the children
ElementToxmlEnd ==
    /\ xstate = "run"
    /\ Head(xwork).kind = "etag"
    /\ out' = Append(out, PieceEndTag(Head(xwork).name))
    /\ XContinue(Tail(xwork))
    /\ UNCHANGED <<genVars, got, heapVars, parseVars, nops, apanic, xtop, printed, ncalls, prev, callVars, build>>

\* func (cd CharData) toxml(namespacePrinted)
CharDataToxml ==
    /\ xstate = "run"
    /\ Head(xwork).kind = "CharData"
    /\ out' = Append(out, PieceText(escape(Head(xwork).Contents)))
    /\ XContinue(Tail(xwork))
    /\ UNCHANGED <<genVars, got, heapVars, parseVars, nops, apanic, xtop, printed, ncalls, prev, callVars, build>>

\* func (cmt Comment) toxml(namespacePrinted)
CommentToxml ==
    /\ xstate = "run"
    /\ Head(xwork).kind = "Comment"
    /\ out' = Append(out, PieceComment(Head(xwork).Contents))
    /\ XContinue(Tail(xwork))
    /\ UNCHANGED <<genVars, got, heapVars, parseVars, nops, apanic, xtop, printed, ncalls, prev, callVars, build>>

\* func (pi ProcInst) toxml(namespacePrinted)
ProcInstToxml ==
    /\ xstate = "run"
    /\ Head(xwork).kind = "ProcInst"
    /\ out' = Append(out, PieceProcInst(Head(xwork).Target, Head(xwork).Inst))
    /\ XContinue(Tail(xwork))
    /\ UNCHANGED <<genVars, got, heapVars, parseVars, nops, apanic, xtop, printed, ncalls, prev, callVars, build>>

----------------------------------------------------------------------------
(* The programmatic interface: constructing nodes and appending them.      *)

ApiStep ==
    /\ ~apanic
    /\ nops' = nops + 1
    /\ UNCHANGED <<genVars, got, stag, parseVars, xmlVars, prev, callVars, build>>

\* d := goxml.XMLDocument{}
ApiNewDocument ==
    /\ ApiStep
    /\ docs' = Append(docs, NewDocument(0))
    /\ UNCHANGED <<elems, apanic>>

\* goxml.NewElement()
ApiNewElement ==
    /\ ApiStep
    /\ elems' = Append(elems, NewElement)
    /\ UNCHANGED <<docs, apanic>>

\* &goxml.Element{Name: name}
ApiElementLiteral(name) ==
    /\ ApiStep
    /\ elems' = Append(elems, [NewElement EXCEPT !.Name = name])
    /\ UNCHANGED <<docs, apanic>>

ApiCall(H) ==
    /\ ApiStep
    /\ docs' = H.docs
    /\ elems' = H.elems
    /\ apanic' = H.panicked

\* d.Append(n) for a document d
ApiDocumentAppend(d, n) == ApiCall(XMLDocumentAppend(Heap, d, n))

\* elt.Append(n) for an element elt
ApiElementAppend(e, n) == ApiCall(ElementAppend(Heap, e, n))

\* The values "for k, v := range elt.Namespaces" can leave in attrPrefix: the
\* first key in the map's iteration order whose value is space, "" when none.
attrPrefixChoices(ns, space) ==
    LET m == {k \in DOMAIN ns : ns[k] = space}
    IN  IF m = {} THEN {""} ELSE m

\* func (elt *Element) SetAttribute(attr xml.Attr), the loop over
\* elt.Namespaces having left attrPrefix
SetAttribute(H, e, attr, attrPrefix) ==
    LET newAttributes == SelectSeq(H.elems[e].attributes,
                                   LAMBDA curattr : curattr.Name # attr.Name)
        qualified == IF attr.Name.Space # EmptyText
                     THEN [attr EXCEPT !.Name.Local = attrPrefix \o ":" \o @]
                     ELSE attr
    IN  [H EXCEPT !.elems[e].attributes = Append(newAttributes, qualified)]

\* elt.SetAttribute(attr) for an element elt
ApiSetAttribute(e, attr) ==
    \E attrPrefix \in attrPrefixChoices(elems[e].Namespaces, attr.Name.Space) :
        ApiCall(SetAttribute(Heap, e, attr, attrPrefix))

----------------------------------------------------------------------------
(* Concurrent builders: each receives identities from the one channel.     *)

Builders == 1..NumBuilders

Received == LET RECURSIVE Sum(_)
                Sum(b) == IF b = 0 THEN 0 ELSE Len(got[b]) + Sum(b - 1)
            IN  Sum(NumBuilders)

\* <-ids in builder b
BuilderRecv(b) ==
    /\ RecvID
    /\ got' = [got EXCEPT ![b] = Append(@, genI)]
    /\ UNCHANGED <<heapVars, parseVars, nops, apanic, xmlVars, prev, callVars, build>>

GeneratorStep ==
    /\ GenInc
    /\ UNCHANGED <<got, heapVars, parseVars, nops, apanic, xmlVars, prev, callVars, build>>

\* Concurrent calls of Parse, each followed through its requests to the
\* generator: build[b].pc is "idle" before the call; "doc", "start" or "leaf"
\* while Parse is blocked in the <-ids of the document, of a start tag or of
\* character data, a processing instruction or a comment; "token" at
\* dec.Token(); "ok", "err" or "panic" when the call is over.  build[b].depth
\* is len(eltstack).

BuildIs(b, pc) == build[b].pc = pc

BuildGoto(b, pc, depth) ==
    /\ build' = [build EXCEPT ![b] = [pc |-> pc, depth |-> depth]]
    /\ UNCHANGED <<heapVars, parseVars, nops, apanic, xmlVars, prev, callVars>>

\* Parse(r) is called: doc := &XMLDocument{ID: <-ids} blocks
BuildCall(b) ==
    /\ BuildIs(b, "idle")
    /\ BuildGoto(b, "doc", 0)
    /\ UNCHANGED <<genVars, got>>

\* the <-ids builder b is blocked in completes; the document and a new
\* element go on the stack
BuildRecv(b) ==
    /\ build[b].pc \in {"doc", "start", "leaf"}
    /\ RecvID
    /\ got' = [got EXCEPT ![b] = Append(@, genI)]
    /\ BuildGoto(b, "token",
                 IF BuildIs(b, "leaf") THEN build[b].depth ELSE build[b].depth + 1)

\* dec.Token() returns a start tag: tmp.ID = <-ids blocks
BuildStartElement(b) ==
    /\ BuildIs(b, "token")
    /\ BuildGoto(b, "start", build[b].depth)
    /\ UNCHANGED <<genVars, got>>

\* dec.Token() returns character data, a processing instruction or a comment
BuildLeaf(b) ==
    /\ BuildIs(b, "token")
    /\ BuildGoto(b, "leaf", build[b].depth)
    /\ UNCHANGED <<genVars, got>>

\* dec.Token() returns an end tag
BuildEndElement(b) ==
    /\ BuildIs(b, "token")
    /\ IF build[b].depth - 2 < 0
       THEN BuildGoto(b, "panic", build[b].depth)
       ELSE BuildGoto(b, "token", build[b].depth - 1)
    /\ UNCHANGED <<genVars, got>>

\* dec.Token() returns io.EOF: return doc, nil
BuildEOF(b) ==
    /\ BuildIs(b, "token")
    /\ BuildGoto(b, "ok", build[b].depth)
    /\ UNCHANGED <<genVars, got>>

\* dec.Token() returns another error: return nil, err
BuildError(b) ==
    /\ BuildIs(b, "token")
    /\ BuildGoto(b, "err", build[b].depth)
    /\ UNCHANGED <<genVars, got>>

----------------------------------------------------------------------------
(* Inputs *)

\* xmlns="u1", xmlns:p="u1", xmlns:p="u2", xmlns:q="u1", at="a<", and
\* p:xmlns="u2" as the decoder delivers it where p is bound to u1
AttDefault1 == XmlAttr(EmptyText, "xmlns", U1)
AttP1 == XmlAttr(XmlnsSpace, "p", U1)
AttP2 == XmlAttr(XmlnsSpace, "p", U2)
AttQ1 == XmlAttr(XmlnsSpace, "q", U1)
AttPlain == XmlAttr(EmptyText, "at", <<"a", "<">>)
AttForeignXmlns == XmlAttr(U1, "xmlns", U2)
\* p:at="a" as the decoder delivers it where p is bound to u1
AttNS == XmlAttr(U1, "at", <<"a">>)

StartElement(space, local, attrs) == [Name |-> XmlName(space, local), Attr |-> attrs]

StartTags ==
    { StartElement(EmptyText, "x", << >>),                     \* <x>
      StartElement(U1, "x", <<AttDefault1>>),                  \* <x xmlns="u1">
      StartElement(U1, "y", <<AttP1, AttPlain>>),              \* <p:y xmlns:p="u1" at="a&lt;">
      StartElement(U2, "x", <<AttP2>>),                        \* <p:x xmlns:p="u2">
      StartElement(U1, "x", <<AttP1, AttQ1>>),                 \* <p:x xmlns:p="u1" xmlns:q="u1">
      StartElement(U1, "y", << >>),                            \* <p:y> or <q:y> below one of these
      StartElement(EmptyText, "x", <<AttP1, AttForeignXmlns>>) \* <x xmlns:p="u1" p:xmlns="u2">
    }

\* the start tags of the streams whose tree is serialized
XMLStartTags ==
    { StartElement(U1, "x", <<AttDefault1>>),
      StartElement(U1, "y", <<AttP1, AttPlain>>),
      StartElement(U2, "x", <<AttP2>>),
      StartElement(U1, "x", <<AttP1, AttQ1>>),
      StartElement(U1, "y", << >>),
      StartElement(EmptyText, "x", <<AttP1, AttNS>>) }         \* <x xmlns:p="u1" p:at="a">

Texts == {<<"a">>, <<"<", "b">>}

ApiNodes ==
    {CharDataVal(0, <<"a">>), CharDataVal(0, <<"b">>), CharDataPtr(0, <<"a">>),
     CommentVal(0, <<"c">>), ProcInstVal(0, "t", <<"i">>),
     AttributeVal("at", EmptyText, <<"v">>)}
        \cup {EltRef(i) : i \in 1..Len(elems)}

\* an element is not appended to itself
ApiNodesFor(e) == ApiNodes \ {EltRef(e)}

\* the local names, namespaces and values of the attributes that are set
AttrLocals == {"at", "b"}
AttrSpaces == {EmptyText, U1}
AttrValues == {<<"1">>, <<"2">>}

\* the arguments of SetAttribute and the Attribute nodes given to Append
SetAttrs == {XmlAttr(sp, l, v) : sp \in AttrSpaces, l \in AttrLocals, v \in AttrValues}
AttrNodes == {AttributeVal(l, sp, v) : l \in AttrLocals, sp \in AttrSpaces, v \in AttrValues}

\* the start tags of the elements attributes are set on
AttrStartTags ==
    { StartElement(EmptyText, "x", << >>),          \* <x>
      StartElement(U1, "x", <<AttP1, AttQ1>>) }     \* <p:x xmlns:p="u1" xmlns:q="u1">

----------------------------------------------------------------------------
(* Specifications *)

InitCommon ==
    /\ genPc = "send"
    /\ got = [b \in Builders |-> << >>]
    /\ docs = << >>
    /\ elems = << >>
    /\ stag = << >>
    /\ pstate = "idle"
    /\ eltstack = << >>
    /\ cur = Nil
    /\ ncreated = 0
    /\ srcErr = Nil
    /\ ret = Nil
    /\ nops = 0
    /\ apanic = FALSE
    /\ xstate = "idle"
    /\ xtop = Nil
    /\ xwork = << >>
    /\ printed = {}
    /\ out = << >>
    /\ ncalls = 0
    /\ prev = Nil
    /\ build = [b \in Builders |-> [pc |-> "idle", depth |-> 0]]

\* The state after init(): the generator is blocked in its first send of 0,
\* nothing has been built.
Init ==
    /\ genI = 0
    /\ InitCommon
    /\ arg = Nil
    /\ res = Nil

\* One Parse of an arbitrary token stream.
Next ==
    \/ GeneratorStep
    \/ ParseBegin
    \/ ncreated < MaxNodes /\ \E v \in StartTags : TokStartElement(v)
    \/ ncreated < MaxNodes /\ \E s \in Texts : TokCharData(s)
    \/ ncreated < MaxNodes /\ TokProcInst("t", <<"i">>)
    \/ ncreated < MaxNodes /\ TokComment(<<"c">>)
    \/ TokEndElement
    \/ TokEOF
    \/ \E e \in Errors : TokError(e)

Spec == Init /\ [][Next]_vars

\* Parse followed by ToXML calls on the returned document or on one of its
\* elements.  The generator's steps after Parse has returned change nothing
\* ToXML reads and are left out.
NextXML ==
    \/ pstate = "run" /\ GeneratorStep
    \/ ParseBegin
    \/ ncreated < MaxXMLNodes /\ \E v \in XMLStartTags : TokStartElement(v)
    \/ ncreated < MaxXMLNodes /\ TokCharData(<<"a">>)
    \/ TokEndElement
    \/ TokEOF
    \/ ncalls < MaxCalls /\ ToXML(ret.doc) /\ UNCHANGED prev
    \/ ncalls < MaxCalls /\ \E e \in 1..Len(elems) : ToXML(EltRef(e)) /\ UNCHANGED prev
    \/ DocumentToxml
    \/ ElementToxml
    \/ ElementToxmlEnd
    \/ CharDataToxml

SpecXML == Init /\ [][NextXML]_vars

\* The programmatic interface alone.
NextAPI ==
    \/ nops < MaxOps /\ ApiNewDocument
    \/ nops < MaxOps /\ ApiNewElement
    \/ nops < MaxOps /\ ApiElementLiteral("root")
    \/ nops < MaxOps /\ \E d \in 1..Len(docs) : \E n \in ApiNodes : ApiDocumentAppend(d, n)
    \/ nops < MaxOps /\ \E e \in 1..Len(elems) : \E n \in ApiNodesFor(e) : ApiElementAppend(e, n)

SpecAPI == Init /\ [][NextAPI]_vars

\* the caller keeps the node and the text of the call that has returned
Remember == prev' = [top |-> xtop, text |-> out]

\* SpecXML with a caller that compares the text of a call with the text of
\* the call before.
NextTwice ==
    \/ pstate = "run" /\ GeneratorStep
    \/ ParseBegin
    \/ ncreated < MaxXMLNodes /\ \E v \in XMLStartTags : TokStartElement(v)
    \/ ncreated < MaxXMLNodes /\ TokCharData(<<"a">>)
    \/ TokEndElement
    \/ TokEOF
    \/ ncalls < MaxCalls /\ ToXML(ret.doc) /\ Remember
    \/ ncalls < MaxCalls /\ \E e \in 1..Len(elems) : ToXML(EltRef(e)) /\ Remember
    \/ DocumentToxml
    \/ ElementToxml
    \/ ElementToxmlEnd
    \/ CharDataToxml

SpecTwice == Init /\ [][NextTwice]_vars

\* Parse of a stream with every element closed, followed by SetAttribute and
\* Append(Attribute) calls on the elements of the returned tree.
NextAttr ==
    \/ pstate = "run" /\ GeneratorStep
    \/ ParseBegin
    \/ ncreated < MaxAttrNodes /\ \E v \in AttrStartTags : TokStartElement(v)
    \/ TokEndElement
    \/ TokEOF
    \/ pstate = "ok" /\ Len(eltstack) = 1 /\ nops < MaxAttrOps
         /\ \E e \in 1..Len(elems) : \E a \in SetAttrs : ApiSetAttribute(e, a)
    \/ pstate = "ok" /\ Len(eltstack) = 1 /\ nops < MaxAttrOps
         /\ \E e \in 1..Len(elems) : \E n \in AttrNodes : ApiElementAppend(e, n)

SpecAttr == Init /\ [][NextAttr]_vars

\* The generator and NumBuilders concurrent receivers.
NextGen ==
    \/ GeneratorStep
    \/ Received < MaxGenerated /\ \E b \in Builders : BuilderRecv(b)

SpecGen == Init /\ [][NextGen]_vars

\* NumBuilders concurrent calls of Parse, each on a finite token stream, and
\* the generator.  The steps of builder b:
BuildNext(b) ==
    \/ BuildCall(b)
    \/ BuildRecv(b)
    \/ Len(got[b]) < MaxBuildIDs /\ BuildStartElement(b)
    \/ Len(got[b]) < MaxBuildIDs /\ BuildLeaf(b)
    \/ BuildEndElement(b)
    \/ BuildEOF(b)
    \/ BuildError(b)

NextLive ==
    \/ GeneratorStep
    \/ \E b \in Builders : BuildNext(b)

\* The Go scheduler runs every goroutine that can run: the generator's, and
\* that of every builder.
SpecLive ==
    /\ Init
    /\ [][NextLive]_vars
    /\ WF_vars(GeneratorStep)
    /\ \A b \in Builders : WF_vars(BuildNext(b))

----------------------------------------------------------------------------
(* Tree walking *)

NodeID(n) ==
    CASE n.kind = "Document" -> docs[n.ref].ID
      [] n.kind = "Element" -> elems[n.ref].ID
      [] OTHER -> n.ID

ChildrenOf(n) ==
    CASE n.kind = "Document" -> docs[n.ref].children
      [] n.kind = "Element" -> elems[n.ref].children
      [] OTHER -> << >>

\* the nodes of the tree below n, n first, in pre-order (trees built by Parse)
RECURSIVE Preorder(_), PreorderAll(_)
Preorder(n) == <<n>> \o PreorderAll(ChildrenOf(n))
PreorderAll(s) == IF s = << >> THEN << >> ELSE Preorder(Head(s)) \o PreorderAll(Tail(s))

Containers == {DocRef(i) : i \in 1..Len(docs)} \cup {EltRef(i) : i \in 1..Len(elems)}

StrictlyIncreasing(s) == \A i \in 1..(Len(s) - 1) : s[i] < s[i + 1]

----------------------------------------------------------------------------
(* Document order: SortByDocumentOrder and SortAndEliminateDuplicates.  A   *)
(* call has arg = [xn |-> the slice] and returns res = [xn |-> the result]. *)

\* func (xn SortByDocumentOrder) Less(i, j int) bool, on the nodes themselves
Less(m, n) == NodeID(m) < NodeID(n)

\* sort.Sort(xn): the nodes of xn in the order Less gives
RECURSIVE SortInsert(_, _)
SortInsert(n, s) ==
    IF s = << >> THEN <<n>>
    ELSE IF Less(n, Head(s)) THEN <<n>> \o s
    ELSE <<Head(s)>> \o SortInsert(n, Tail(s))

RECURSIVE Sort(_)
Sort(xn) == IF xn = << >> THEN << >> ELSE SortInsert(Head(xn), Sort(Tail(xn)))

\* for i := 1; i < len(xn); i++ { ... } and return xn[:e], with Go's indices:
\* Go's xn[i] is xn[i + 1] here
RECURSIVE EliminateLoop(_, _, _)
EliminateLoop(xn, i, e) ==
    IF ~(i < Len(xn)) THEN SubSeq(xn, 1, e)
    ELSE IF NodeID(xn[i + 1]) = NodeID(xn[i]) THEN EliminateLoop(xn, i + 1, e)
    ELSE EliminateLoop([xn EXCEPT ![e + 1] = xn[i + 1]], i + 1, e + 1)

\* Faulty variant of SortAndEliminateDuplicates: sort.Sort(xn) is left out.
EliminateDuplicatesUnsorted(xn) ==
    IF Len(xn) < 2 THEN xn ELSE EliminateLoop(xn, 1, 1)

\* func (xn SortByDocumentOrder) SortAndEliminateDuplicates() SortByDocumentOrder
SortAndEliminateDuplicates(xn) ==
    LET sorted == Sort(xn)
    IN  IF Len(sorted) < 2 THEN sorted ELSE EliminateLoop(sorted, 1, 1)

CallSortAndEliminateDuplicates ==
    /\ "xn" \in DOMAIN arg
    /\ res = Nil
    /\ res' = [xn |-> SortAndEliminateDuplicates(arg.xn)]
    /\ UNCHANGED <<genVars, got, heapVars, parseVars, nops, apanic, xmlVars, prev, arg, build>>

----------------------------------------------------------------------------
(* Root.  A call has arg = the document and returns res = [elt, err].      *)

RootError == [kind |-> "error", msg |-> "cannot find root element"]

\* for _, c := range xr.children, from the i-th child on
RECURSIVE RootFrom(_, _)
RootFrom(children, i) ==
    IF i > Len(children) THEN [elt |-> Nil, err |-> RootError]
    ELSE IF children[i].kind = "Element" THEN [elt |-> children[i], err |-> Nil]
    ELSE RootFrom(children, i + 1)

\* Faulty variant of Root: only the first child is looked at.
RootOfFirstChild(d) ==
    IF Len(docs[d].children) > 0 /\ docs[d].children[1].kind = "Element"
    THEN [elt |-> docs[d].children[1], err |-> Nil]
    ELSE [elt |-> Nil, err |-> RootError]

\* func (xr *XMLDocument) Root() (*Element, error)
Root(d) == RootFrom(docs[d].children, 1)

CallRoot(d) ==
    /\ arg' = DocRef(d)
    /\ res' = Root(d)
    /\ UNCHANGED <<genVars, got, heapVars, parseVars, nops, apanic, xmlVars, prev, build>>

----------------------------------------------------------------------------
(* escape on its own.  A call has arg = [in |-> the text] and returns      *)
(* res = [out |-> the escaped text].                                       *)

Callescape ==
    /\ "in" \in DOMAIN arg
    /\ res = Nil
    /\ res' = [out |-> escape(arg.in)]
    /\ UNCHANGED <<genVars, got, heapVars, parseVars, nops, apanic, xmlVars, prev, arg, build>>

----------------------------------------------------------------------------
(* Specifications of the calls above *)

MaxSortLen == 5     \* nodes in a slice that is sorted
MaxSortID == 3      \* the identities of those nodes are 1..MaxSortID
MaxEscLen == 3      \* characters of a text that is escaped

\* the sequences over S of length up to n
SeqsUpTo(S, n) == UNION {[1..k -> S] : k \in 0..n}

SortNodes == {CommentVal(i, EmptyText) : i \in 1..MaxSortID}

InitSort ==
    /\ genI = 0
    /\ InitCommon
    /\ arg \in {[xn |-> s] : s \in SeqsUpTo(SortNodes, MaxSortLen)}
    /\ res = Nil

NextSort == CallSortAndEliminateDuplicates

SpecSort == InitSort /\ [][NextSort]_vars

\* Parse, then Root() on the returned document.
NextRoot ==
    \/ pstate = "run" /\ GeneratorStep
    \/ ParseBegin
    \/ ncreated < MaxNodes /\ TokStartElement(StartElement(EmptyText, "x", << >>))
    \/ ncreated < MaxNodes /\ TokProcInst("t", <<"i">>)
    \/ ncreated < MaxNodes /\ TokComment(<<"c">>)
    \/ TokEndElement
    \/ TokEOF
    \/ pstate = "ok" /\ CallRoot(ret.doc.ref)

SpecRoot == Init /\ [][NextRoot]_vars

EscChars == {"&", "<", "\"", ">", "'", "a"}

EscExample == <<"a", "<", "b", "&", "c", "\"", "d">>

InitEscape ==
    /\ genI = 0
    /\ InitCommon
    /\ arg \in {[in |-> t] : t \in SeqsUpTo(EscChars, MaxEscLen) \cup {EscExample}}
    /\ res = Nil

NextEscape == Callescape

SpecEscape == InitEscape /\ [][NextEscape]_vars

----------------------------------------------------------------------------
(* Claims *)

\* C1: no container, Element or Document, has two CharData nodes next to each
\* other in its children (the invariant half of the coalescing claim).
C1_NoAdjacentCharData ==
    \A c \in Containers :
      \A i \in 1..(Len(ChildrenOf(c)) - 1) :
        ~(ChildrenOf(c)[i].kind = "CharData" /\ ChildrenOf(c)[i + 1].kind = "CharData")

C4_DocumentOrError ==
    /\ pstate = "err" => /\ srcErr \in Errors
                         /\ ret = [doc |-> Nil, err |-> srcErr]
    /\ pstate = "ok" => /\ srcErr = Nil
                        /\ ret = [doc |-> DocRef(1), err |-> Nil]
    /\ pstate \notin {"ok", "err"} => ret = Nil /\ srcErr = Nil

\* the error arrives after tokens that built part of a tree
C4_Witness ==
    /\ pstate = "err"
    /\ ncreated >= 2
    /\ Len(elems) >= 1
    /\ Len(docs[1].children) >= 1

\* C5: no two requests to the generator, from the same or from different
\* builders, receive the same identity, and every builder's successive
\* identities are strictly increasing.
C5_UniqueAndIncreasing ==
    /\ \A b1, b2 \in Builders :
         \A i \in 1..Len(got[b1]) : \A j \in 1..Len(got[b2]) :
           (b1 # b2 \/ i # j) => got[b1][i] # got[b2][j]
    /\ \A b \in Builders : StrictlyIncreasing(got[b])

\* two builders whose requests interleave
C5_Witness ==
    /\ Len(got[1]) >= 2
    /\ Len(got[2]) >= 2
    /\ got[1][1] < got[2][1]
    /\ got[2][1] < got[1][2]
    /\ got[1][2] < got[2][2]

\* C6: in the Document Parse returns for a well-formed stream (every element
\* closed), the identities in pre-order, Document first, strictly increase.
C6_PreorderIdentitiesIncrease ==
    (pstate = "ok" /\ Len(eltstack) = 1) =>
        StrictlyIncreasing([i \in 1..Len(Preorder(ret.doc)) |-> NodeID(Preorder(ret.doc)[i])])

\* C7: any two distinct nodes have different identities (stated for the
\* Documents and Elements, which are distinct objects whenever their addresses
\* differ).
C7_UniqueIdentities ==
    \A m, n \in Containers : m # n => NodeID(m) # NodeID(n)

\* C8: an Element that is a child of a container has that container as its
\* parent (so it has one parent, set by the Append that made it a child).
C8_ParentIsTheContainer ==
    \A c \in Containers :
      \A i \in 1..Len(ChildrenOf(c)) :
        ChildrenOf(c)[i].kind = "Element" => elems[ChildrenOf(c)[i].ref].Parent = c

\* the bindings a start tag declares: xmlns="..." binds the empty prefix,
\* xmlns:p="..." binds p; later declarations of a prefix override earlier ones
RECURSIVE Declared(_, _)
Declared(attrs, ns) ==
    IF attrs = << >> THEN ns
    ELSE LET att == Head(attrs)
         IN  IF att.Name.Space = EmptyText /\ att.Name.Local = "xmlns"
             THEN Declared(Tail(attrs), MapSet(ns, "", att.Value))
             ELSE IF att.Name.Space = XmlnsSpace
             THEN Declared(Tail(attrs), MapSet(ns, att.Name.Local, att.Value))
             ELSE Declared(Tail(attrs), ns)

ParentTable(e) ==
    IF elems[e].Parent.kind = "Element" THEN elems[elems[e].Parent.ref].Namespaces
    ELSE NoNamespaces

\* C9: the binding table of every Element built by Parse is its parent
\* Element's table (empty below the Document) overridden by the xmlns and
\* xmlns:* declarations of its own start tag.
C9_NamespaceInheritance ==
    \A e \in 1..Len(elems) : elems[e].Namespaces = Declared(stag[e].Attr, ParentTable(e))

\* the elements of the tree below n, in document order
SubtreeElements(n) == SelectSeq(Preorder(n), LAMBDA m : m.kind = "Element")

BoundURIs(e) == {elems[e].Namespaces[p] : p \in DOMAIN elems[e].Namespaces}

XmlnsNames == {XmlnsName(p) : p \in {"", "p", "q"}}

\* the positions in out of the xmlns declarations of namespace u
Declarations(u) ==
    {i \in 1..Len(out) : out[i].k = "attr" /\ out[i].name \in XmlnsNames /\ out[i].value = u}

\* the number of start tags opened in out up to position i
OpensUpTo(i) == Cardinality({j \in 1..i : out[j].k = "open"})

\* the position in E of the first element whose binding table contains u
FirstBinding(E, u) ==
    CHOOSE k \in 1..Len(E) :
        /\ u \in BoundURIs(E[k].ref)
        /\ \A j \in 1..(k - 1) : u \notin BoundURIs(E[j].ref)

\* C10: in the text one top-level ToXML call returns, every namespace URI
\* bound in the serialized subtree is declared exactly once, in the start tag
\* of the first element in document order whose binding table contains it;
\* while the call runs no URI is declared twice.  Each top-level call is held
\* to this on its own.
C10_DeclaredOnceAtFirstUse ==
    /\ xstate = "run" =>
         \A i, j \in 1..Len(out) :
           (i # j /\ out[i].k = "attr" /\ out[j].k = "attr"
              /\ out[i].name \in XmlnsNames /\ out[j].name \in XmlnsNames)
             => out[i].value # out[j].value
    /\ xstate = "done" =>
         LET E == SubtreeElements(xtop)
         IN  \A k \in 1..Len(E) : \A u \in BoundURIs(E[k].ref) :
               /\ Cardinality(Declarations(u)) = 1
               /\ \A i \in Declarations(u) : OpensUpTo(i) = FirstBinding(E, u)

\* a second top-level call has returned the text of a subtree, built from a
\* stream with every element closed, in which an element and its descendant
\* both have the same URI in their tables
C10_Witness ==
    /\ xstate = "done"
    /\ Len(eltstack) = 1
    /\ ncalls = 2
    /\ LET E == SubtreeElements(xtop)
       IN  /\ Len(E) >= 2
           /\ \E u \in BoundURIs(E[1].ref) : u \in BoundURIs(E[2].ref)

\* Reading the output back.  The prefixes and local names that occur:
Prefixes == {"", "p", "q"}
Locals == {"x", "y"}

\* the prefix of a written element name "p:x" or "x"
WrittenPrefix(name) ==
    CHOOSE p \in Prefixes : \E l \in Locals : name = (IF p # "" THEN p \o ":" \o l ELSE l)

\* the local part of a written element name
WrittenLocal(name) ==
    CHOOSE l \in Locals : \E p \in Prefixes : name = (IF p # "" THEN p \o ":" \o l ELSE l)

\* the prefix an xmlns or xmlns:p attribute name declares
DeclaredPrefix(name) == CHOOSE p \in Prefixes : name = XmlnsName(p)

\* the URI a table of bindings gives prefix p; the empty text when it has none
Bound(scope, p) == IF p \in DOMAIN scope THEN scope[p] ELSE EmptyText

\* the namespace URI an element has in the tree: what its table binds its
\* prefix to
ResolvedURI(e) == Bound(elems[e].Namespaces, elems[e].Prefix)

\* the bindings in scope inside the start tag opened at out[i - 1], whose
\* attributes begin at out[i]: scope overridden by the tag's declarations
RECURSIVE OwnDecls(_, _)
OwnDecls(i, scope) ==
    IF i > Len(out) \/ out[i].k # "attr" THEN scope
    ELSE IF out[i].name \in XmlnsNames
    THEN OwnDecls(i + 1, MapSet(scope, DeclaredPrefix(out[i].name), out[i].value))
    ELSE OwnDecls(i + 1, scope)

\* Walking out from position i with the scopes of the open elements on stack
\* and k start tags passed: the k-th start tag is that of E[k], and the scope
\* it is written in binds its written prefix to E[k]'s URI.
RECURSIVE ScopesAgree(_, _, _, _)
ScopesAgree(E, i, stack, k) ==
    IF i > Len(out) THEN TRUE
    ELSE CASE out[i].k = "open" ->
                LET outer == IF stack = << >> THEN NoNamespaces ELSE stack[Len(stack)]
                    scope == OwnDecls(i + 1, outer)
                IN  /\ Bound(scope, WrittenPrefix(out[i].name)) = ResolvedURI(E[k + 1].ref)
                    /\ ScopesAgree(E, i + 1, Append(stack, scope), k + 1)
           [] out[i].k \in {"selfclose", "etag"} ->
                ScopesAgree(E, i + 1, SubSeq(stack, 1, Len(stack) - 1), k)
           [] OTHER -> ScopesAgree(E, i + 1, stack, k)

\* C11: in the text a top-level ToXML call returns for a tree built by Parse
\* from a stream with every element closed,
\* every element is written inside the scope of xmlns declarations, on itself
\* or on an enclosing element of the text, that bind the prefix it is written
\* with (the empty one included) to the namespace URI it has in the tree.
C11_BindingsReconstructed ==
    (xstate = "done" /\ Len(eltstack) = 1) => ScopesAgree(SubtreeElements(xtop), 1, << >>, 0)

\* Parsing the output again.  The tokenizer resolves a written name against
\* the declarations in scope: a prefix no declaration binds stays behind as
\* the name's space, an unprefixed attribute has no namespace.
Resolved(scope, p) ==
    IF p \in DOMAIN scope THEN scope[p] ELSE IF p = "" THEN EmptyText ELSE <<p>>

ReadAttr(scope, a) ==
    LET p == CHOOSE q \in Prefixes :
                 \E l \in AttrLocals : a.name = (IF q # "" THEN q \o ":" \o l ELSE l)
        l == CHOOSE m \in AttrLocals :
                 \E q \in Prefixes : a.name = (IF q # "" THEN q \o ":" \o m ELSE m)
    IN  <<IF p = "" THEN EmptyText ELSE Resolved(scope, p), l, a.value>>

IsPrefixOf(p, t) == Len(t) >= Len(p) /\ SubSeq(t, 1, Len(p)) = p

\* the text an escaped text stands for
RECURSIVE Unescape(_)
Unescape(t) ==
    IF t = << >> THEN << >>
    ELSE IF IsPrefixOf(<<"&", "a", "m", "p", ";">>, t)
    THEN <<"&">> \o Unescape(SubSeq(t, 6, Len(t)))
    ELSE IF IsPrefixOf(<<"&", "l", "t", ";">>, t)
    THEN <<"<">> \o Unescape(SubSeq(t, 5, Len(t)))
    ELSE IF IsPrefixOf(<<"&", "q", "u", "o", "t", ";">>, t)
    THEN <<"\"">> \o Unescape(SubSeq(t, 7, Len(t)))
    ELSE <<Head(t)>> \o Unescape(Tail(t))

\* the ordinary attributes of the start tag whose attributes begin at out[i],
\* as (namespace, name, value)
RECURSIVE ReadAttrs(_, _)
ReadAttrs(i, scope) ==
    IF i > Len(out) \/ out[i].k # "attr" THEN {}
    ELSE IF out[i].name \in XmlnsNames THEN ReadAttrs(i + 1, scope)
    ELSE {ReadAttr(scope, [out[i] EXCEPT !.value = Unescape(@)])} \cup ReadAttrs(i + 1, scope)

\* the elements read from out, in document order: local name, namespace URI
\* and attributes of each
RECURSIVE ReadElements(_, _)
ReadElements(i, stack) ==
    IF i > Len(out) THEN << >>
    ELSE CASE out[i].k = "open" ->
                LET outer == IF stack = << >> THEN NoNamespaces ELSE stack[Len(stack)]
                    scope == OwnDecls(i + 1, outer)
                IN  <<[name |-> WrittenLocal(out[i].name),
                       uri |-> Resolved(scope, WrittenPrefix(out[i].name)),
                       attrs |-> ReadAttrs(i + 1, scope)]>>
                      \o ReadElements(i + 1, Append(stack, scope))
           [] out[i].k \in {"selfclose", "etag"} ->
                ReadElements(i + 1, SubSeq(stack, 1, Len(stack) - 1))
           [] OTHER -> ReadElements(i + 1, stack)

\* the character data read from out, in document order
RECURSIVE ReadText(_)
ReadText(i) ==
    IF i > Len(out) THEN << >>
    ELSE IF out[i].k = "text" THEN Unescape(out[i].value) \o ReadText(i + 1)
    ELSE ReadText(i + 1)

TreeElement(e) ==
    [name |-> elems[e].Name,
     uri |-> ResolvedURI(e),
     attrs |-> {<<elems[e].attributes[i].Name.Space, elems[e].attributes[i].Name.Local,
                  elems[e].attributes[i].Value>> : i \in 1..Len(elems[e].attributes)}]

RECURSIVE TreeText(_)
TreeText(s) ==
    IF s = << >> THEN << >>
    ELSE IF Head(s).kind = "CharData" THEN Head(s).Contents \o TreeText(Tail(s))
    ELSE TreeText(Tail(s))

\* C12: parsing the text ToXML returns for a tree built by Parse (from a
\* stream with every element closed) gives the same elements in document
\* order, each with the same name, namespace URI and set of attributes
\* (namespace, name, value), and the same character data.
C12_RoundTrip ==
    (xstate = "done" /\ Len(eltstack) = 1) =>
        LET E == SubtreeElements(xtop)
        IN  /\ ReadElements(1, << >>) = [k \in 1..Len(E) |-> TreeElement(E[k].ref)]
            /\ ReadText(1) = TreeText(Preorder(xtop))

\* the local names attr can be stored under: its own, or its own qualified
\* with a prefix when it has a namespace
StoredLocals(attr) ==
    IF attr.Name.Space = EmptyText THEN {attr.Name.Local}
    ELSE {attr.Name.Local} \cup {p \o ":" \o attr.Name.Local : p \in Prefixes}

\* the stored attribute has the (namespace, local name) of attr
SameAttrName(stored, attr) ==
    /\ stored.Name.Space = attr.Name.Space
    /\ stored.Name.Local \in StoredLocals(attr)

\* what setting attr on element e is to do to e's attribute list
SetInPlace(e, attr) ==
    LET old == elems[e].attributes
        new == elems'[e].attributes
        hits == {i \in 1..Len(old) : SameAttrName(old[i], attr)}
    IN  IF hits # {}
        THEN /\ Len(new) = Len(old)
             /\ \A i \in 1..Len(old) :
                    IF i \in hits
                    THEN new[i].Name = old[i].Name /\ new[i].Value = attr.Value
                    ELSE new[i] = old[i]
        ELSE /\ Len(new) = Len(old) + 1
             /\ SubSeq(new, 1, Len(old)) = old
             /\ SameAttrName(new[Len(new)], attr)
             /\ new[Len(new)].Value = attr.Value

\* the xml.Attr an Attribute node stands for
AsAttr(n) == XmlAttr(n.Namespace, n.Name, n.Value)

\* C13: setting an attribute (SetAttribute, or Append of an Attribute) on an
\* element that holds an attribute of the same (namespace, local name) puts
\* the new value in its place, the length of the list and the position of
\* every attribute unchanged; setting a name not yet present appends the new
\* attribute at the end.
C13_SetReplacesInPlace ==
    [][\A e \in 1..Len(elems) :
         /\ \A a \in SetAttrs : ApiSetAttribute(e, a) => SetInPlace(e, a)
         /\ \A n \in AttrNodes : ApiElementAppend(e, n) => SetInPlace(e, AsAttr(n))]_vars

C14_Unique ==
    \A e \in 1..Len(elems) :
      \A i, j \in 1..Len(elems[e].attributes) :
        LET a == elems[e].attributes[i]
            b == elems[e].attributes[j]
        IN  i # j => ~(\E sp \in AttrSpaces : \E l \in AttrLocals :
                          /\ SameAttrName(a, XmlAttr(sp, l, EmptyText))
                          /\ SameAttrName(b, XmlAttr(sp, l, EmptyText)))

\* after attr is set on e, the attributes of that name all have its value
LastSetStored(e, attr) ==
    LET new == elems'[e].attributes
    IN  /\ \E i \in 1..Len(new) : SameAttrName(new[i], attr)
        /\ \A i \in 1..Len(new) : SameAttrName(new[i], attr) => new[i].Value = attr.Value

\* C14: after any sequence of SetAttribute and Append(Attribute) calls no two
\* stored attributes of an element share their (namespace URI, local name),
\* and the value stored for a pair is the one set last.
C14_AttributesUnique ==
    /\ []C14_Unique
    /\ [][\A e \in 1..Len(elems) :
            /\ \A a \in SetAttrs : ApiSetAttribute(e, a) => LastSetStored(e, a)
            /\ \A n \in AttrNodes :
                  ApiElementAppend(e, n) => LastSetStored(e, AsAttr(n))]_vars

\* the identities of the nodes of s, in order
IDs(s) == [i \in 1..Len(s) |-> NodeID(s[i])]

\* C15: SortAndEliminateDuplicates returns nodes whose identities strictly
\* ascend and are, as a set, the identities of the input; the identities
\* 3, 1, 1, 2, 3 give 1, 2, 3.
C15_SortedWithoutDuplicates ==
    "xn" \in DOMAIN res =>
        /\ StrictlyIncreasing(IDs(res.xn))
        /\ SeqRange(IDs(res.xn)) = SeqRange(IDs(arg.xn))
        /\ IDs(arg.xn) = <<3, 1, 1, 2, 3>> => IDs(res.xn) = <<1, 2, 3>>

\* the call on identities 3, 1, 1, 2, 3 has returned
C15_Witness ==
    /\ "xn" \in DOMAIN res
    /\ IDs(arg.xn) = <<3, 1, 1, 2, 3>>

\* the positions of the Element children of document d
ElementChildren(d) ==
    {i \in 1..Len(docs[d].children) : docs[d].children[i].kind = "Element"}

\* C16: Root() on a Document without an Element child returns an error and
\* no Element; on a Document with an Element child it returns the first such
\* child and no error; the call changes neither the Document nor any node.
C16_RootLookup ==
    /\ []("elt" \in DOMAIN res =>
            LET E == ElementChildren(arg.ref)
            IN  IF E = {}
                THEN res.elt = Nil /\ res.err # Nil
                ELSE /\ res.err = Nil
                     /\ \E i \in E : /\ res.elt = docs[arg.ref].children[i]
                                      /\ \A j \in E : i <= j)
    /\ [][res' # res => (docs' = docs /\ elems' = elems)]_vars

\* Root() has returned the second child of a Document whose first child is
\* no Element and whose third is one
C16_Witness ==
    /\ "elt" \in DOMAIN res
    /\ Len(docs[arg.ref].children) = 3
    /\ ElementChildren(arg.ref) = {2, 3}
    /\ res.elt = docs[arg.ref].children[2]

\* what a character is to be written as
Entity(c) ==
    CASE c = "&" -> <<"&", "a", "m", "p", ";">>
      [] c = "<" -> <<"&", "l", "t", ";">>
      [] c = "\"" -> <<"&", "q", "u", "o", "t", ";">>
      [] OTHER -> <<c>>

\* the first i characters of t, each replaced once
RECURSIVE Replaced(_, _)
Replaced(t, i) == IF i = 0 THEN << >> ELSE Replaced(t, i - 1) \o Entity(t[i])

\* C17: escape replaces every &, < and " of its input by &amp;, &lt; and
\* &quot;, in one pass, and leaves every other character (> and ' among them)
\* as it is; a<b&c"d becomes a&lt;b&amp;c&quot;d.
C17_Escaping ==
    "out" \in DOMAIN res =>
        /\ res.out = Replaced(arg.in, Len(arg.in))
        /\ arg.in = EscExample =>
              res.out = <<"a", "&", "l", "t", ";", "b", "&", "a", "m", "p", ";",
                          "c", "&", "q", "u", "o", "t", ";", "d">>

\* escape has returned for a<b&c"d
C17_Witness ==
    /\ "out" \in DOMAIN res
    /\ arg.in = EscExample

\* C18: the prefix Parse gives an element is determined by the token stream:
\* whatever any build of the stream can leave in Prefix is one and the same
\* value, also where the element's URI is bound to more than one prefix.
C18_PrefixDetermined ==
    \A e \in 1..Len(elems) :
      \A p1, p2 \in PrefixChoices(elems[e].Namespaces, stag[e].Name.Space) : p1 = p2

\* C19: ToXML changes no node of the tree, and two ToXML calls on the same
\* node of an unchanged tree return the same text, also where a binding
\* table holds two or more namespaces.
C19_ToXMLPure ==
    /\ []((xstate = "done" /\ Len(eltstack) = 1 /\ "top" \in DOMAIN prev /\ prev.top = xtop)
             => out = prev.text)
    /\ [][(xstate = "run" \/ xstate' = "run") => (docs' = docs /\ elems' = elems)]_vars

\* the stack of a build: not empty, the Document at the bottom, cur on top,
\* every entry above the bottom the last child of the entry below it
StackWellFormed ==
    /\ Len(eltstack) >= 1
    /\ eltstack[1] = DocRef(1)
    /\ cur = eltstack[Len(eltstack)]
    /\ \A i \in 2..Len(eltstack) :
         LET c == ChildrenOf(eltstack[i - 1])
         IN  Len(c) > 0 /\ c[Len(c)] = eltstack[i]

\* C20: in every state of a build the stack is not empty, its bottom entry is
\* the Document, cur is its top entry and every entry above the bottom is the
\* last child of the entry below it; a start tag pushes the new Element, and
\* an end tag that closes an element takes it off and makes its parent cur.
C20_StackDiscipline ==
    /\ [](pstate # "idle" => StackWellFormed)
    /\ [][/\ Len(stag') = Len(stag) + 1 =>
               /\ Len(elems') = Len(elems) + 1
               /\ eltstack' = Append(eltstack, EltRef(Len(elems')))
               /\ elems'[Len(elems')].Parent = cur
          /\ (TokEndElement /\ Len(eltstack) >= 2) =>
               /\ eltstack' = SubSeq(eltstack, 1, Len(eltstack) - 1)
               /\ cur' = elems[cur.ref].Parent]_vars

\* an element has been closed and its sibling opened after it
C20_Witness ==
    /\ pstate = "run"
    /\ Len(eltstack) = 3
    /\ Len(ChildrenOf(eltstack[2])) = 2
    /\ ChildrenOf(eltstack[2])[1].kind = "Element"

\* the values the attributes of a start tag carry
AttrValuesOf(v) == {v.Attr[i].Value : i \in 1..Len(v.Attr)}

\* C21: a start tag leaves the binding table of every Element created before
\* it as it was; every binding of an Element is one of its parent's table or
\* one its own start tag gave it, so the declarations of an Element show
\* neither in its parent and ancestors nor in its later siblings.
C21_TablesOfOthersUnchanged ==
    /\ [][Len(stag') = Len(stag) + 1 =>
              \A e \in 1..Len(elems) : elems'[e].Namespaces = elems[e].Namespaces]_vars
    /\ [](\A e \in 1..Len(elems) : \A p \in DOMAIN elems[e].Namespaces :
             \/ p \in DOMAIN ParentTable(e) /\ ParentTable(e)[p] = elems[e].Namespaces[p]
             \/ elems[e].Namespaces[p] \in AttrValuesOf(stag[e]))

\* an element with a declaration of its own has been closed and a sibling
\* without that declaration created after it, below a parent Element
C21_Witness ==
    /\ Len(elems) = 3
    /\ elems[2].Parent = EltRef(1)
    /\ elems[3].Parent = EltRef(1)
    /\ elems[2].Namespaces # elems[1].Namespaces
    /\ elems[3].Namespaces = elems[1].Namespaces
    /\ elems[1].Namespaces # NoNamespaces

\* builder b is blocked in a request to the generator
Waiting(b) == build[b].pc \in {"doc", "start", "leaf"}

====
